---------------------------- MODULE Spec2Model ----------------------------
(***************************************************************************)
(* Facial expression recognition pipeline of controller/cvision.py:        *)
(* face detection (detect_face and its two backends), the orchestration    *)
(* (recognize_facial_expression), the lazily initialised backend handles   *)
(* and the ensemble aggregation (_predict), with the result container      *)
(* model/esr/fer.py (FER).                                                 *)
(*                                                                         *)
(* Real numbers (the affect values, which are float tensors in the code)   *)
(* are exact rationals <<numerator, denominator>> in lowest terms with a   *)
(* positive denominator; floating-point rounding is not modelled.          *)
(* Python's None is the string "None" where the other values are strings;  *)
(* an optional value of another type is << >> (None) or <<x>>.             *)
(***************************************************************************)
EXTENDS Integers, Sequences, FiniteSets, TLC

VARIABLES
    FACE_DETECTOR_DLIB,          \* global of line 40: "None" or "constructed"
    FACE_DETECTOR_HAAR_CASCADE,  \* global of line 43: "None" or "constructed"
    ESR_9,                       \* global of line 46: "None" or the device the
                                 \* ensemble was loaded for
    constructed,                 \* times each handle's constructor has run
    predCall,                    \* the call of _predict under study
    fer,                         \* the call of recognize_facial_expression
                                 \* under study and what it returned
    pc,                          \* concurrent model: each thread's position
    frame,                       \* concurrent model: each thread's locals
    calls                        \* concurrent model: calls started so far

vars == <<FACE_DETECTOR_DLIB, FACE_DETECTOR_HAAR_CASCADE, ESR_9, constructed,
          predCall, fer, pc, frame, calls>>

-----------------------------------------------------------------------------
(* Bounds of the model *)

\* Most branches an ensemble output holds.
MaxBranches == 3
\* Most emotion classes a branch reports.
MaxClasses == 3
\* Threads calling recognize_facial_expression concurrently.
NumThreads == 2
\* Calls of recognize_facial_expression made in a run of the concurrent model.
MaxCalls == 3
\* Most candidate boxes a detector backend returns for one image.
MaxFaces == 2

-----------------------------------------------------------------------------
(* Exact arithmetic standing for numpy's float arithmetic *)

Abs(x) == IF x < 0 THEN -x ELSE x

RECURSIVE Gcd(_, _)
Gcd(a, b) == IF b = 0 THEN a ELSE Gcd(b, a % b)

\* n/d in lowest terms, d > 0.
Rat(n, d) ==
    LET g == Gcd(Abs(n), d)
    IN  <<n \div g, d \div g>>

RatAdd(p, q) == Rat(p[1] * q[2] + q[1] * p[2], p[2] * q[2])
RatDivInt(p, k) == Rat(p[1], p[2] * k)
RatMulInt(p, k) == Rat(p[1] * k, p[2])
RatLess(p, q) == p[1] * q[2] < q[1] * p[2]
RatLeq(p, q) == p[1] * q[2] <= q[1] * p[2]

Zero == Rat(0, 1)
One == Rat(1, 1)

RatMin(p, q) == IF RatLess(q, p) THEN q ELSE p
RatMax(p, q) == IF RatLess(p, q) THEN q ELSE p

\* np.clip(x, lo, hi) == minimum(maximum(x, lo), hi)
Clip(x, lo, hi) == RatMin(RatMax(x, lo), hi)

RECURSIVE RatSum(_, _)
\* Sum of the first k entries of a sequence of rationals.
RatSum(s, k) == IF k = 0 THEN Zero ELSE RatAdd(RatSum(s, k - 1), s[k])

\* np.mean over axis 0 of one column.
Mean(col) == RatDivInt(RatSum(col, Len(col)), Len(col))

-----------------------------------------------------------------------------
(* udata.AffectNetCategorical.get_class: class index -> label *)

GetClass(idx) ==
    CASE idx = 0 -> "Neutral"
      [] idx = 1 -> "Happy"
      [] idx = 2 -> "Sad"
      [] idx = 3 -> "Surprise"
      [] idx = 4 -> "Fear"
      [] idx = 5 -> "Disgust"
      [] idx = 6 -> "Anger"
      [] idx = 7 -> "Contempt"

-----------------------------------------------------------------------------
(* _predict: aggregation of the ensemble's output *)

RECURSIVE ArgMaxScan(_, _)
\* np.argmax over the first k entries of v, 0-based: the scan keeps the
\* earliest index and moves only to a strictly greater entry.
ArgMaxScan(v, k) ==
    IF k = 1 THEN 0
    ELSE LET best == ArgMaxScan(v, k - 1)
         IN  IF v[k] > v[best + 1] THEN k - 1 ELSE best

RECURSIVE ArgMaxLastScan(_, _)
\* A scan that moves on ties as well: the last maximal index.
ArgMaxLastScan(v, k) ==
    IF k = 1 THEN 0
    ELSE LET best == ArgMaxLastScan(v, k - 1)
         IN  IF v[k] >= v[best + 1] THEN k - 1 ELSE best

ArgMaxLast(v) == ArgMaxLastScan(v, Len(v))

\* np.argmax(v) for a non-empty one-dimensional array.
ArgMax(v) == ArgMaxScan(v, Len(v))

RECURSIVE EmotionVotes(_, _, _)
\* emotion_votes after the loop of lines 233-236 has handled the first k
\* branches; a tuple indexed by class index + 1.
EmotionVotes(emotion, numClasses, k) ==
    IF k = 0 THEN [c \in 1..numClasses |-> 0]
    ELSE LET votes == EmotionVotes(emotion, numClasses, k - 1)
             e_idx == ArgMax(emotion[k])
         IN  [votes EXCEPT ![e_idx + 1] = @ + 1]

\* Arousal renormalised without the halving.
NormalizeArousalNoHalf(a) == Clip(RatAdd(a, One), Zero, One)

\* np.clip((arousal + 1) / 2.0, 0, 1)
NormalizeArousal(a) == Clip(RatDivInt(RatAdd(a, One), 2), Zero, One)

\* Whether np.array(emotion) is a proper two-dimensional array.
Rectangular(emotion) ==
    \A i, j \in 1..Len(emotion) : Len(emotion[i]) = Len(emotion[j])

Raised(err) == [raised |-> err, emotion |-> << >>, affect |-> << >>]

\* _predict from line 216 on: emotion and affect are the two lists returned
\* by the ensemble, one entry per branch.  raggedError is what the numpy
\* build in use raises for a list of vectors of differing lengths:
\* "ValueError" at np.array (line 228) or, where np.array still builds a
\* one-dimensional object array, "IndexError" at emotion.shape[1] (line 230).
Predict(emotion, affect, raggedError) ==
    IF Len(affect) = 0
    THEN \* np.array([]) has shape (0,): affect[:, 1] raises (line 220)
         Raised("IndexError")
    ELSE LET n == Len(affect)
             normalized == [i \in 1..n |->
                               <<affect[i][1], NormalizeArousal(affect[i][2])>>]
             ensemble_affect ==
                 <<Mean([i \in 1..n |-> normalized[i][1]]),
                   Mean([i \in 1..n |-> normalized[i][2]])>>
             to_return_affect == Append(normalized, ensemble_affect)
         IN  IF ~Rectangular(emotion)
             THEN Raised(raggedError)
             ELSE LET num_classes == Len(emotion[1])
                      votes == EmotionVotes(emotion, num_classes, Len(emotion))
                      labels == [i \in 1..Len(emotion) |->
                                    GetClass(ArgMax(emotion[i]))]
                  IN  [raised |-> "None",
                       emotion |-> Append(labels, GetClass(ArgMax(votes))),
                       affect |-> to_return_affect]

-----------------------------------------------------------------------------
(* Values shared by the specifications *)

Handles == {"dlib", "haar", "esr"}

\* torch.device("cuda" if on_gpu else "cpu")
Device(on_gpu) == IF on_gpu THEN "cuda" ELSE "cpu"

Devices == {Device(g) : g \in BOOLEAN}

\* Sequences over S of length lo..hi.
SeqsOf(S, lo, hi) == UNION {[1..k -> S] : k \in lo..hi}

Threads == 1..NumThreads

IdlePredCall ==
    [called |-> FALSE, device |-> "None", inferred |-> FALSE,
     emotion |-> << >>, affect |-> << >>,
     result |-> Raised("None")]

IdleFer == [called |-> FALSE]

IdleFrame ==
    [method |-> 0, on_gpu |-> FALSE, scalesLeft |-> 0, target |-> "None",
     outcome |-> "None"]

-----------------------------------------------------------------------------
(* The aggregation model: one call of _predict on every ensemble output *)

\* Emotion-score vectors: every 0/1 vector over MaxClasses classes, and one
\* vector with a class less for the outputs with differing lengths.
ScoreVectors ==
    [1..MaxClasses -> {0, 1}] \cup {[c \in 1..(MaxClasses - 1) |-> 0]}

\* Affect vectors <<valence, arousal>>: arousals below, at the ends of, inside
\* and above [-1, 1], and valences inside and outside [-1, 1].
AffectVectors ==
    {<<Rat(1, 5), Rat(-1, 1)>>, <<Rat(4, 5), Rat(1, 1)>>,
     <<Rat(-3, 2), Rat(3, 1)>>, <<Rat(-3, 2), Rat(-2, 1)>>,
     <<Rat(1, 5), Rat(0, 1)>>, <<Rat(4, 5), Rat(1, 3)>>}

DefaultScores == [c \in 1..MaxClasses |-> IF c = 1 THEN 1 ELSE 0]
DefaultAffect == <<Rat(0, 1), Rat(0, 1)>>

\* What the ensemble returns for n branches: the list of emotion-score
\* vectors and the list of affect vectors, one entry per branch.  Either
\* list ranges over all its values while the other holds the default
\* entries.
EmotionLists(n, varied) ==
    IF varied THEN [1..n -> ScoreVectors] ELSE {[i \in 1..n |-> DefaultScores]}

AffectLists(n, varied) ==
    IF varied THEN {[i \in 1..n |-> DefaultAffect]} ELSE [1..n -> AffectVectors]

RaggedErrors(emotion) ==
    IF Rectangular(emotion) THEN {"ValueError"}
    ELSE {"ValueError", "IndexError"}

\* _ESR_9 after lines 207-208 of a call with this device.
LoadedEsr(esr, device) == IF esr = "None" THEN device ELSE esr

\* How _ESR_9(input_face) can end (line 214): the input tensor is on the
\* call's device, the weights on the device the handle was loaded for.
InferenceOutcomes(esr, device) ==
    IF esr = device THEN {TRUE} ELSE {TRUE, FALSE}

InitPredict ==
    /\ FACE_DETECTOR_DLIB = "None"
    /\ FACE_DETECTOR_HAAR_CASCADE = "None"
    /\ ESR_9 \in {"None"} \cup Devices
    /\ constructed = [h \in Handles |->
                         IF h = "esr" /\ ESR_9 # "None" THEN 1 ELSE 0]
    /\ predCall = IdlePredCall
    /\ fer = IdleFer
    /\ pc = [t \in Threads |-> "idle"]
    /\ frame = [t \in Threads |-> IdleFrame]
    /\ calls = 0

\* _predict(input_face, device), lines 204-241.
PredictCall ==
    /\ ~predCall.called
    /\ \E device \in Devices, n \in 0..MaxBranches, varied \in BOOLEAN :
         \E emotion \in EmotionLists(n, varied), affect \in AffectLists(n, varied) :
         LET out == <<emotion, affect>> IN
         \E raggedError \in RaggedErrors(out[1]),
            ok \in InferenceOutcomes(LoadedEsr(ESR_9, device), device) :
            /\ ESR_9' = LoadedEsr(ESR_9, device)
            /\ constructed' =
                   IF ESR_9 = "None"
                   THEN [constructed EXCEPT !["esr"] = @ + 1]
                   ELSE constructed
            /\ predCall' =
                   IF ok
                   THEN [called |-> TRUE, device |-> device, inferred |-> TRUE,
                         emotion |-> out[1], affect |-> out[2],
                         result |-> Predict(out[1], out[2], raggedError)]
                   ELSE [IdlePredCall EXCEPT !.called = TRUE,
                                             !.device = device,
                                             !.result = Raised("RuntimeError")]
    /\ UNCHANGED <<FACE_DETECTOR_DLIB, FACE_DETECTOR_HAAR_CASCADE, fer, pc,
                   frame, calls>>

NextPredict == PredictCall

SpecPredict == InitPredict /\ [][NextPredict]_vars

-----------------------------------------------------------------------------
(* detect_face and its backends *)

ID_FACE_DETECTOR_DLIB == 1
ID_FACE_DETECTOR_DLIB_STANDARD == 2
ID_FACE_DETECTOR_HAAR_CASCADE == 3

\* Scale factors in tenths: [0.5, 1.0] and [0.2, 0.5].
DLIB_SCALE_FACTOR_SMALL_IMAGES == <<5, 10>>
DLIB_SCALE_FACTOR_LARGE_IMAGES == <<2, 5>>
DLIB_SCALE_FACTOR_THRESHOLD == 500 * 500
\* The scale, in tenths, of a detector run on the image as it is.
FullScale == 10

HAAR_MIN_SIZE == 60

\* Optional values of the FER fields: None and a present value.
None == << >>
Some(x) == <<x>>

\* greyscale_image.size: the pixel count of the height x width array.
GreySize(image) == image.h * image.w

\* The list chosen with >= in place of >.
ScaleFactorsAtThreshold(image) ==
    IF GreySize(image) >= DLIB_SCALE_FACTOR_THRESHOLD
    THEN DLIB_SCALE_FACTOR_LARGE_IMAGES
    ELSE DLIB_SCALE_FACTOR_SMALL_IMAGES

\* Line 69.
ScaleFactors(image) ==
    IF GreySize(image) > DLIB_SCALE_FACTOR_THRESHOLD
    THEN DLIB_SCALE_FACTOR_LARGE_IMAGES
    ELSE DLIB_SCALE_FACTOR_SMALL_IMAGES

\* Integer division truncating toward zero, as astype(int) truncates.
TruncDiv(a, b) == IF a >= 0 THEN a \div b ELSE -((-a) \div b)

\* ((1 / scale) * c).astype(int) for one coordinate, scale in tenths.
Rescale(c, scale) == TruncDiv(c * 10, scale)

RescaleBox(box, scale) ==
    <<<<Rescale(box[1][1], scale), Rescale(box[1][2], scale)>>,
      <<Rescale(box[2][1], scale), Rescale(box[2][2], scale)>>>>

\* Lines 153-155: a dlib rectangle <<left, right, top, bottom>> becomes
\* [[xi, yi], [xf, yf]].
DlibCoordinates(faces) ==
    [i \in 1..Len(faces) |->
        <<<<faces[i][1], faces[i][3]>>, <<faces[i][2], faces[i][4]>>>>]

\* Line 183: a cascade rectangle <<x, y, w, h>> becomes
\* [[x, y], [x + w, y + h]].
HaarCoordinates(faces) ==
    [i \in 1..Len(faces) |->
        <<<<faces[i][1], faces[i][2]>>,
          <<faces[i][1] + faces[i][3], faces[i][2] + faces[i][4]>>>>]

\* np.sum of one box.
BoxSum(box) == box[1][1] + box[1][2] + box[2][1] + box[2][2]

\* The last candidate in place of the first.
SelectLastFace(face_coordinates) ==
    IF Len(face_coordinates) > 0
          /\ BoxSum(face_coordinates[Len(face_coordinates)]) > 0
    THEN face_coordinates[Len(face_coordinates)]
    ELSE None

\* Line 84.
SelectFace(face_coordinates) ==
    IF Len(face_coordinates) > 0 /\ BoxSum(face_coordinates[1]) > 0
    THEN face_coordinates[1]
    ELSE None

\* The rectangles the CNN detector reports, <<left, right, top, bottom>>:
\* an ordinary one, a second ordinary one, the all-zero rectangle, two
\* reaching over the image's edge (coordinate sums 0 and -2) and one a single
\* pixel column wide (left = right).
DlibRects ==
    {<<1, 3, 1, 3>>, <<4, 9, 2, 8>>, <<0, 0, 0, 0>>, <<-2, 1, -1, 2>>,
     <<-3, 1, -2, 2>>, <<2, 2, 1, 4>>}

\* The rectangles the cascade reports, <<x, y, w, h>>, no smaller than the
\* minimum window.
HaarRects ==
    {<<0, 0, HAAR_MIN_SIZE, HAAR_MIN_SIZE>>,
     <<5, 7, HAAR_MIN_SIZE + 1, HAAR_MIN_SIZE + 4>>}

DetectorRun(backend, scale, faces) ==
    [backend |-> backend, scale |-> scale, faces |-> faces]

RECURSIVE MultiscaleRuns(_, _)
\* The loop of lines 72-79 from the i-th scale factor on: every way the
\* detector can answer, the loop ending at the first non-empty answer.
MultiscaleRuns(scale_factors, i) ==
    {<<DetectorRun("dlib", scale_factors[i], f)>> :
        f \in SeqsOf(DlibRects, 1, MaxFaces)}
    \cup
    (IF i = Len(scale_factors)
     THEN {<<DetectorRun("dlib", scale_factors[i], << >>)>>}
     ELSE {<<DetectorRun("dlib", scale_factors[i], << >>)>> \o rest :
              rest \in MultiscaleRuns(scale_factors, i + 1)})

\* The detector runs detect_face can make, lines 65-81, with what each
\* detector answered.
DetectorRuns(image, face_detection_method) ==
    IF face_detection_method = ID_FACE_DETECTOR_HAAR_CASCADE
    THEN {<<DetectorRun("haar", FullScale, f)>> :
             f \in SeqsOf(HaarRects, 0, MaxFaces)}
    ELSE IF face_detection_method = ID_FACE_DETECTOR_DLIB
    THEN MultiscaleRuns(ScaleFactors(image), 1)
    ELSE {<<DetectorRun("dlib", FullScale, f)>> :
             f \in SeqsOf(DlibRects, 0, MaxFaces)}

\* face_coordinates when line 83 is reached.
FaceCoordinates(face_detection_method, runs) ==
    LET last == runs[Len(runs)]
    IN  IF face_detection_method = ID_FACE_DETECTOR_HAAR_CASCADE
        THEN HaarCoordinates(last.faces)
        ELSE IF face_detection_method = ID_FACE_DETECTOR_DLIB
        THEN [i \in 1..Len(last.faces) |->
                 RescaleBox(DlibCoordinates(last.faces)[i], last.scale)]
        ELSE DlibCoordinates(last.faces)

\* detect_face(image, face_detection_method), lines 51-84, given the runs.
DetectFace(face_detection_method, runs) ==
    SelectFace(FaceCoordinates(face_detection_method, runs))

-----------------------------------------------------------------------------
(* recognize_facial_expression and the FER result *)

\* A container that drops the input image.
FERWithoutImage(image, face_image, face_coordinates, list_emotion, list_affect) ==
    [input_image |-> None,
     face_coordinates |-> face_coordinates,
     face_image |-> face_image,
     list_emotion |-> list_emotion,
     list_affect |-> list_affect]

\* FER.__init__, fer.py lines 21-32.
FER(image, face_image, face_coordinates, list_emotion, list_affect) ==
    [input_image |-> image,
     face_coordinates |-> face_coordinates,
     face_image |-> face_image,
     list_emotion |-> list_emotion,
     list_affect |-> list_affect]

\* Length of the Python slice start:stop of an axis of length len.
PySliceLen(start, stop, len) ==
    LET Norm(i) == IF i < 0 THEN (IF i + len < 0 THEN 0 ELSE i + len)
                   ELSE (IF i > len THEN len ELSE i)
    IN  IF Norm(stop) > Norm(start) THEN Norm(stop) - Norm(start) ELSE 0

\* Line 108: the crop, kept as its shape.
Crop(image, face_coordinates) ==
    [rows |-> PySliceLen(face_coordinates[1][2], face_coordinates[2][2], image.h),
     cols |-> PySliceLen(face_coordinates[1][1], face_coordinates[2][1], image.w)]

\* How _pre_process_input_image can end: the resize of an empty crop is
\* left open between failing and passing.
PreProcessOutcomes(face) ==
    IF face.rows = 0 \/ face.cols = 0 THEN {"cv2.error", "None"} ELSE {"None"}

Selectors == 1..4

Images == {[h |-> 500, w |-> 500], [h |-> 500, w |-> 501], [h |-> 300, w |-> 400]}

\* The ensemble outputs of this model: two branches, and no branch at all.
SampleOutputs ==
    {<<<<DefaultScores, [c \in 1..MaxClasses |-> IF c = MaxClasses THEN 1 ELSE 0]>>,
       <<<<Rat(1, 5), Rat(-1, 1)>>, <<Rat(4, 5), Rat(1, 1)>>>>>>,
     <<<< >>, << >>>>}

\* The handle globals after the detector runs of one detect_face call
\* (lines 145-146 and 176-177).
UsesBackend(runs, backend) == \E i \in 1..Len(runs) : runs[i].backend = backend

HandleAfter(handle, used) == IF used THEN "constructed" ELSE handle

ConstructedAfter(count, handle, used) ==
    IF used /\ handle = "None" THEN count + 1 ELSE count

InitRecognize ==
    /\ FACE_DETECTOR_DLIB \in {"None", "constructed"}
    /\ FACE_DETECTOR_HAAR_CASCADE \in {"None", "constructed"}
    /\ ESR_9 \in {"None"} \cup Devices
    /\ constructed =
          [h \in Handles |->
              CASE h = "dlib" -> IF FACE_DETECTOR_DLIB = "None" THEN 0 ELSE 1
                [] h = "haar" -> IF FACE_DETECTOR_HAAR_CASCADE = "None" THEN 0 ELSE 1
                [] h = "esr" -> IF ESR_9 = "None" THEN 0 ELSE 1]
    /\ predCall = IdlePredCall
    /\ fer = IdleFer
    /\ pc = [t \in Threads |-> "idle"]
    /\ frame = [t \in Threads |-> IdleFrame]
    /\ calls = 0

\* The record of a call: its arguments, the detector runs, what detect_face
\* returned, the components run in order, the error raised and the FER
\* object returned.
FerCall(image, on_gpu, method, runs, detected, steps, raised, returned) ==
    [called |-> TRUE, image |-> image, on_gpu |-> on_gpu, method |-> method,
     runs |-> runs, detected |-> detected, steps |-> steps,
     raised |-> raised, returned |-> returned]

\* recognize_facial_expression(image, on_gpu, face_detection_method),
\* lines 87-123.
Recognize ==
    /\ ~fer.called
    /\ \E image \in Images, on_gpu \in BOOLEAN, method \in Selectors :
         \E runs \in DetectorRuns(image, method) :
            LET face_coordinates == DetectFace(method, runs)
                face == Crop(image, face_coordinates)
                device == Device(on_gpu)
            IN  /\ FACE_DETECTOR_DLIB' =
                       HandleAfter(FACE_DETECTOR_DLIB, UsesBackend(runs, "dlib"))
                /\ FACE_DETECTOR_HAAR_CASCADE' =
                       HandleAfter(FACE_DETECTOR_HAAR_CASCADE, UsesBackend(runs, "haar"))
                /\ IF face_coordinates = None
                   THEN /\ fer' = FerCall(image, on_gpu, method, runs, None,
                                          <<"detect_face">>, "None",
                                          Some(FER(Some(image), None, None, None, None)))
                        /\ ESR_9' = ESR_9
                        /\ constructed' =
                              [constructed EXCEPT
                                 !["dlib"] = ConstructedAfter(@, FACE_DETECTOR_DLIB,
                                                              UsesBackend(runs, "dlib")),
                                 !["haar"] = ConstructedAfter(@, FACE_DETECTOR_HAAR_CASCADE,
                                                              UsesBackend(runs, "haar"))]
                   ELSE \E pre \in PreProcessOutcomes(face) :
                        IF pre # "None"
                        THEN /\ fer' = FerCall(image, on_gpu, method, runs,
                                               face_coordinates,
                                               <<"detect_face", "_pre_process_input_image">>,
                                               pre, None)
                             /\ ESR_9' = ESR_9
                             /\ constructed' =
                                   [constructed EXCEPT
                                      !["dlib"] = ConstructedAfter(@, FACE_DETECTOR_DLIB,
                                                                   UsesBackend(runs, "dlib")),
                                      !["haar"] = ConstructedAfter(@, FACE_DETECTOR_HAAR_CASCADE,
                                                                   UsesBackend(runs, "haar"))]
                        ELSE \E out \in SampleOutputs,
                                ok \in InferenceOutcomes(LoadedEsr(ESR_9, device), device) :
                             LET res == IF ok THEN Predict(out[1], out[2], "ValueError")
                                        ELSE Raised("RuntimeError")
                                 steps == IF ok
                                          THEN <<"detect_face", "_pre_process_input_image",
                                                 "_ESR_9", "_predict">>
                                          ELSE <<"detect_face", "_pre_process_input_image",
                                                 "_ESR_9">>
                             IN  /\ ESR_9' = LoadedEsr(ESR_9, device)
                                 /\ constructed' =
                                       [constructed EXCEPT
                                          !["dlib"] = ConstructedAfter(@, FACE_DETECTOR_DLIB,
                                                                       UsesBackend(runs, "dlib")),
                                          !["haar"] = ConstructedAfter(@, FACE_DETECTOR_HAAR_CASCADE,
                                                                       UsesBackend(runs, "haar")),
                                          !["esr"] = ConstructedAfter(@, ESR_9, TRUE)]
                                 /\ fer' = FerCall(image, on_gpu, method, runs,
                                                   face_coordinates, steps, res.raised,
                                                   IF res.raised = "None"
                                                   THEN Some(FER(Some(image), Some(face),
                                                                 face_coordinates,
                                                                 Some(res.emotion),
                                                                 Some(res.affect)))
                                                   ELSE None)
    /\ UNCHANGED <<predCall, pc, frame, calls>>

NextRecognize == Recognize

SpecRecognize == InitRecognize /\ [][NextRecognize]_vars

-----------------------------------------------------------------------------
(* Concurrent callers of recognize_facial_expression.  A thread can be     *)
(* switched out between any two statements, so each test of a handle       *)
(* global and the assignment that follows it are separate steps.           *)

NewFrame(method, on_gpu, scalesLeft) ==
    [method |-> method, on_gpu |-> on_gpu, scalesLeft |-> scalesLeft,
     target |-> "None", outcome |-> "None"]

\* recognize_facial_expression is entered; detect_face starts (lines 103,
\* 60-81).  scalesLeft is the number of detector runs the call can still make.
Call(t) ==
    /\ pc[t] = "idle"
    /\ calls < MaxCalls
    /\ calls' = calls + 1
    /\ \E method \in Selectors, on_gpu \in BOOLEAN :
         /\ frame' = [frame EXCEPT ![t] =
                         NewFrame(method, on_gpu,
                                  IF method = ID_FACE_DETECTOR_DLIB
                                  THEN Len(DLIB_SCALE_FACTOR_SMALL_IMAGES)
                                  ELSE 1)]
         /\ pc' = [pc EXCEPT ![t] =
                      IF method = ID_FACE_DETECTOR_HAAR_CASCADE
                      THEN "haar_check" ELSE "dlib_check"]
    /\ UNCHANGED <<FACE_DETECTOR_DLIB, FACE_DETECTOR_HAAR_CASCADE, ESR_9,
                   constructed, predCall, fer>>

\* _dlib_face_detection, line 145.
DlibCheck(t) ==
    /\ pc[t] = "dlib_check"
    /\ pc' = [pc EXCEPT ![t] =
                 IF FACE_DETECTOR_DLIB = "None" THEN "dlib_construct"
                 ELSE "dlib_run"]
    /\ UNCHANGED <<FACE_DETECTOR_DLIB, FACE_DETECTOR_HAAR_CASCADE, ESR_9,
                   constructed, predCall, fer, frame, calls>>

\* _dlib_face_detection, line 146.
DlibConstruct(t) ==
    /\ pc[t] = "dlib_construct"
    /\ FACE_DETECTOR_DLIB' = "constructed"
    /\ constructed' = [constructed EXCEPT !["dlib"] = @ + 1]
    /\ pc' = [pc EXCEPT ![t] = "dlib_run"]
    /\ UNCHANGED <<FACE_DETECTOR_HAAR_CASCADE, ESR_9, predCall, fer, frame,
                   calls>>

\* What a detector run leads to in detect_face: a face is returned, the
\* first candidate is refused by line 84, or there is no candidate.
DetectorAnswers == {"face", "refused", "empty"}

\* Where a call goes after a detector run with this answer.
AfterDetection(t, answer, again) ==
    /\ pc' = [pc EXCEPT ![t] =
                 CASE answer = "face" -> "esr_check"
                   [] answer = "refused" -> "return"
                   [] answer = "empty" ->
                        IF frame[t].scalesLeft > 1 THEN again ELSE "return"]
    /\ frame' = [frame EXCEPT ![t] =
                    CASE answer = "face" -> @
                      [] answer = "refused" -> [@ EXCEPT !.outcome = "no face"]
                      [] answer = "empty" ->
                           IF @.scalesLeft > 1
                           THEN [@ EXCEPT !.scalesLeft = @ - 1]
                           ELSE [@ EXCEPT !.outcome = "no face"]]

\* _dlib_face_detection, lines 149-157, and what detect_face and
\* recognize_facial_expression do with the answer (lines 77-84, 105-115).
DlibRun(t) ==
    /\ pc[t] = "dlib_run"
    /\ \E answer \in DetectorAnswers : AfterDetection(t, answer, "dlib_check")
    /\ UNCHANGED <<FACE_DETECTOR_DLIB, FACE_DETECTOR_HAAR_CASCADE, ESR_9,
                   constructed, predCall, fer, calls>>

\* _haar_cascade_face_detection, line 176.
HaarCheck(t) ==
    /\ pc[t] = "haar_check"
    /\ pc' = [pc EXCEPT ![t] =
                 IF FACE_DETECTOR_HAAR_CASCADE = "None" THEN "haar_construct"
                 ELSE "haar_run"]
    /\ UNCHANGED <<FACE_DETECTOR_DLIB, FACE_DETECTOR_HAAR_CASCADE, ESR_9,
                   constructed, predCall, fer, frame, calls>>

\* _haar_cascade_face_detection, line 177.
HaarConstruct(t) ==
    /\ pc[t] = "haar_construct"
    /\ FACE_DETECTOR_HAAR_CASCADE' = "constructed"
    /\ constructed' = [constructed EXCEPT !["haar"] = @ + 1]
    /\ pc' = [pc EXCEPT ![t] = "haar_run"]
    /\ UNCHANGED <<FACE_DETECTOR_DLIB, ESR_9, predCall, fer, frame, calls>>

\* _haar_cascade_face_detection, lines 180-185, and what follows the answer.
HaarRun(t) ==
    /\ pc[t] = "haar_run"
    /\ \E answer \in DetectorAnswers : AfterDetection(t, answer, "haar_check")
    /\ UNCHANGED <<FACE_DETECTOR_DLIB, FACE_DETECTOR_HAAR_CASCADE, ESR_9,
                   constructed, predCall, fer, calls>>

\* _predict, line 207.
EsrCheck(t) ==
    /\ pc[t] = "esr_check"
    /\ pc' = [pc EXCEPT ![t] =
                 IF ESR_9 = "None" THEN "esr_load" ELSE "esr_infer"]
    /\ UNCHANGED <<FACE_DETECTOR_DLIB, FACE_DETECTOR_HAAR_CASCADE, ESR_9,
                   constructed, predCall, fer, frame, calls>>

\* _predict, line 208: the ensemble is loaded for this call's device.
EsrLoad(t) ==
    /\ pc[t] = "esr_load"
    /\ ESR_9' = Device(frame[t].on_gpu)
    /\ constructed' = [constructed EXCEPT !["esr"] = @ + 1]
    /\ pc' = [pc EXCEPT ![t] = "esr_infer"]
    /\ UNCHANGED <<FACE_DETECTOR_DLIB, FACE_DETECTOR_HAAR_CASCADE, predCall,
                   fer, frame, calls>>

\* _predict, lines 214-241: inference on the weights _ESR_9 holds, then the
\* aggregation.  target is the device those weights are on.
EsrInfer(t) ==
    /\ pc[t] = "esr_infer"
    /\ \E ok \in InferenceOutcomes(ESR_9, Device(frame[t].on_gpu)) :
         frame' = [frame EXCEPT ![t] =
                      [@ EXCEPT !.target = ESR_9,
                                !.outcome = IF ok THEN "face"
                                            ELSE "RuntimeError"]]
    /\ pc' = [pc EXCEPT ![t] = "return"]
    /\ UNCHANGED <<FACE_DETECTOR_DLIB, FACE_DETECTOR_HAAR_CASCADE, ESR_9,
                   constructed, predCall, fer, calls>>

\* recognize_facial_expression returns or raises (line 123).
Return(t) ==
    /\ pc[t] = "return"
    /\ pc' = [pc EXCEPT ![t] = "idle"]
    /\ frame' = [frame EXCEPT ![t] = IdleFrame]
    /\ UNCHANGED <<FACE_DETECTOR_DLIB, FACE_DETECTOR_HAAR_CASCADE, ESR_9,
                   constructed, predCall, fer, calls>>

InitConcurrent ==
    /\ FACE_DETECTOR_DLIB = "None"
    /\ FACE_DETECTOR_HAAR_CASCADE = "None"
    /\ ESR_9 = "None"
    /\ constructed = [h \in Handles |-> 0]
    /\ predCall = IdlePredCall
    /\ fer = IdleFer
    /\ pc = [t \in Threads |-> "idle"]
    /\ frame = [t \in Threads |-> IdleFrame]
    /\ calls = 0

NextConcurrent ==
    \E t \in Threads :
        \/ Call(t)
        \/ DlibCheck(t)
        \/ DlibConstruct(t)
        \/ DlibRun(t)
        \/ HaarCheck(t)
        \/ HaarConstruct(t)
        \/ HaarRun(t)
        \/ EsrCheck(t)
        \/ EsrLoad(t)
        \/ EsrInfer(t)
        \/ Return(t)

SpecConcurrent == InitConcurrent /\ [][NextConcurrent]_vars

-----------------------------------------------------------------------------
(* Properties of the aggregation, stated without the model's operators *)

\* k is the first maximal index (0-based) of the non-empty vector v.
IsFirstMax(v, k) ==
    /\ k \in 0..(Len(v) - 1)
    /\ \A j \in 1..Len(v) : v[j] <= v[k + 1]
    /\ \A j \in 1..k : v[j] < v[k + 1]

\* Number of branches whose first maximal index is class c.
VoteCount(emotion, c) ==
    Cardinality({i \in 1..Len(emotion) : IsFirstMax(emotion[i], c)})

\* c has the most votes, and more votes than every lower class index.
IsConsensus(emotion, c) ==
    LET classes == 0..(Len(emotion[1]) - 1)
        count == [d \in classes |-> VoteCount(emotion, d)]
    IN  /\ c \in classes
        /\ \A d \in classes :
              /\ count[d] <= count[c]
              /\ d < c => count[d] < count[c]

\* The class indices a label can stand for.
ClassesOf(label, numClasses) ==
    {c \in 0..(numClasses - 1) : GetClass(c) = label}

\* C1: for an ensemble output with n >= 1 branches that all report the same
\* number of classes, _predict returns an emotion list of n + 1 entries:
\* entry i is the label of the first maximal index of branch i's scores, and
\* the last entry is the label of the class with the most votes, the lowest
\* class index winning a tie.
C1_EmotionList ==
    (predCall.inferred /\ Len(predCall.emotion) >= 1
        /\ Rectangular(predCall.emotion))
    => LET e == predCall.emotion
           n == Len(e)
           out == predCall.result
       IN  /\ out.raised = "None"
           /\ Len(out.emotion) = n + 1
           /\ \A i \in 1..n :
                 \E k \in ClassesOf(out.emotion[i], Len(e[i])) :
                     IsFirstMax(e[i], k)
           /\ \E c \in ClassesOf(out.emotion[n + 1], Len(e[1])) :
                 IsConsensus(e, c)

\* Witness of C1: three branches whose classes are 1, 1 and 2, the first
\* chosen among tied maximal scores, give the consensus label of class 1.
C1_Witness ==
    /\ predCall.inferred
    /\ predCall.emotion = <<<<0, 1, 1>>, <<0, 1, 0>>, <<0, 0, 1>>>>
    /\ predCall.result.emotion = <<"Happy", "Happy", "Sad", "Happy">>

\* (arousal + 1) / 2 limited to [0, 1], by cases.
ExpectedArousal(a) ==
    IF RatLeq(a, Rat(-1, 1)) THEN Rat(0, 1)
    ELSE IF RatLeq(Rat(1, 1), a) THEN Rat(1, 1)
    ELSE Rat(a[1] + a[2], 2 * a[2])

\* C2: the affect list _predict returns for n >= 1 branches has n + 1 rows:
\* row i is (valence_i, clamp((arousal_i + 1) / 2, 0, 1)) with the valence
\* as given, and the last row is the elementwise mean of those n rows.
C2_AffectList ==
    (predCall.inferred /\ Len(predCall.affect) >= 1
        /\ predCall.result.raised = "None")
    => LET a == predCall.affect
           n == Len(a)
           rows == predCall.result.affect
       IN  /\ Len(rows) = n + 1
           /\ \A i \in 1..n :
                 /\ rows[i][1] = a[i][1]
                 /\ rows[i][2] = ExpectedArousal(a[i][2])
           /\ \A k \in 1..2 :
                 RatMulInt(rows[n + 1][k], n)
                     = RatSum([i \in 1..n |-> rows[i][k]], n)

\* Witness of C2: (0.2, -1.0) and (0.8, 1.0) give the arousals 0 and 1 and
\* the consensus (0.5, 0.5).
C2_Witness ==
    /\ predCall.inferred
    /\ predCall.affect = <<<<Rat(1, 5), Rat(-1, 1)>>, <<Rat(4, 5), Rat(1, 1)>>>>
    /\ predCall.result.affect
          = <<<<Rat(1, 5), Rat(0, 1)>>, <<Rat(4, 5), Rat(1, 1)>>,
              <<Rat(1, 2), Rat(1, 2)>>>>

\* C6: _predict given an ensemble output with zero branches, or with
\* emotion-score vectors of differing lengths, raises InvalidEnsembleInput
\* and returns no emotion or affect list.
C6_InvalidEnsembleInput ==
    (predCall.inferred
        /\ (Len(predCall.emotion) = 0 \/ ~Rectangular(predCall.emotion)))
    => /\ predCall.result.raised = "InvalidEnsembleInput"
       /\ predCall.result.emotion = << >>
       /\ predCall.result.affect = << >>

-----------------------------------------------------------------------------
(* Properties of recognize_facial_expression and detect_face *)

\* C3: whenever detect_face returns None, recognize_facial_expression
\* returns a result whose face box, face image, emotion list and affect list
\* are absent and whose image is the input image; the preprocessor, the
\* ensemble and the aggregation are not run and nothing is raised.
C3_NoFace ==
    (fer.called /\ fer.detected = None)
    => /\ fer.raised = "None"
       /\ fer.returned # None
       /\ fer.returned[1].input_image = Some(fer.image)
       /\ fer.returned[1].face_coordinates = None
       /\ fer.returned[1].face_image = None
       /\ fer.returned[1].list_emotion = None
       /\ fer.returned[1].list_affect = None
       /\ fer.steps = <<"detect_face">>

\* Witness of C3: a multiscale call in which no scale yields a detection.
C3_Witness ==
    /\ fer.called
    /\ fer.method = ID_FACE_DETECTOR_DLIB
    /\ Len(fer.runs) = 2
    /\ fer.runs[2].faces = << >>
    /\ fer.detected = None
    /\ fer.returned # None

\* The scale list the claim names, in tenths.
ClaimedScales(image) ==
    IF image.h * image.w > 250000 THEN <<2, 5>> ELSE <<5, 10>>

\* box is the dlib rectangle rect = <<left, right, top, bottom>> with every
\* coordinate multiplied by 1 / scale (scale in tenths), an integer.
IsRescaled(box, rect, scale) ==
    /\ box[1][1] * scale = rect[1] * 10
    /\ box[1][2] * scale = rect[3] * 10
    /\ box[2][1] * scale = rect[2] * 10
    /\ box[2][2] * scale = rect[4] * 10

\* C5: multiscale detection tries the scales of [0.2, 0.5] when the pixel
\* count is above 250,000 and of [0.5, 1.0] otherwise, in list order, stops
\* at the first scale with a detection, returns the detected coordinates
\* multiplied by 1/scale as integers, and returns None when no scale yields
\* a detection.
C5_Multiscale ==
    (fer.called /\ fer.method = ID_FACE_DETECTOR_DLIB)
    => LET scales == ClaimedScales(fer.image)
           n == Len(fer.runs)
       IN  /\ n \in 1..Len(scales)
           /\ \A i \in 1..n :
                 /\ fer.runs[i].backend = "dlib"
                 /\ fer.runs[i].scale = scales[i]
           /\ \A i \in 1..(n - 1) : fer.runs[i].faces = << >>
           /\ n < Len(scales) => fer.runs[n].faces # << >>
           /\ fer.runs[n].faces = << >> => fer.detected = None
           /\ fer.detected # None =>
                 IsRescaled(fer.detected, fer.runs[n].faces[1], scales[n])

\* Witness of C5: a large image, nothing at scale 0.2, a face at scale 0.5
\* whose coordinates come back doubled.
C5_Witness ==
    /\ fer.called
    /\ fer.method = ID_FACE_DETECTOR_DLIB
    /\ fer.image.h * fer.image.w > 250000
    /\ Len(fer.runs) = 2
    /\ fer.runs[1].scale = 2 /\ fer.runs[1].faces = << >>
    /\ fer.runs[2].scale = 5 /\ fer.runs[2].faces = <<<<4, 9, 2, 8>>>>
    /\ fer.detected = <<<<8, 4>>, <<18, 16>>>>

\* C7: detect_face called with a selector that is none of the three
\* recognised ones raises UnsupportedBackendSelector and runs no detector
\* backend; the error reaches the caller of recognize_facial_expression.
C7_UnsupportedSelector ==
    (fer.called
        /\ fer.method \notin {ID_FACE_DETECTOR_DLIB,
                              ID_FACE_DETECTOR_DLIB_STANDARD,
                              ID_FACE_DETECTOR_HAAR_CASCADE})
    => /\ fer.raised = "UnsupportedBackendSelector"
       /\ fer.runs = << >>
       /\ fer.returned = None

\* The first candidate of the deciding detector run, in image coordinates.
FirstCandidate(run) ==
    LET f == run.faces[1]
        k == 10 \div run.scale
    IN  IF run.backend = "haar"
        THEN <<<<f[1], f[2]>>, <<f[1] + f[3], f[2] + f[4]>>>>
        ELSE <<<<k * f[1], k * f[3]>>, <<k * f[2], k * f[4]>>>>

CoordinateSum(box) == box[1][1] + box[1][2] + box[2][1] + box[2][2]

C10_BoxInvariant ==
    (fer.called /\ fer.detected # None)
    => /\ fer.detected[1][1] < fer.detected[2][1]
       /\ fer.detected[1][2] < fer.detected[2][2]

-----------------------------------------------------------------------------
(* Properties of the concurrent callers *)

\* The handle global a thread at this position is about to use.
HandleInUse(t) ==
    CASE pc[t] = "dlib_run" -> FACE_DETECTOR_DLIB
      [] pc[t] = "haar_run" -> FACE_DETECTOR_HAAR_CASCADE
      [] pc[t] = "esr_infer" -> ESR_9
      [] OTHER -> "unused"

\* C4: when several callers concurrently make the first use of a lazily
\* initialised handle, its constructor runs exactly once and every caller
\* uses an initialised handle.
C4_ConstructedOnce ==
    /\ \A h \in Handles : constructed[h] <= 1
    /\ \A t \in Threads : HandleInUse(t) # "None"
    /\ FACE_DETECTOR_DLIB # "None" => constructed["dlib"] = 1
    /\ FACE_DETECTOR_HAAR_CASCADE # "None" => constructed["haar"] = 1
    /\ ESR_9 # "None" => constructed["esr"] = 1

\* C8: the device a call's ensemble inference runs on is the one its own
\* on_gpu flag names, whatever the flags of earlier or concurrent calls.
C8_OwnDevice ==
    \A t \in Threads :
        frame[t].target # "None" => frame[t].target = Device(frame[t].on_gpu)

=============================================================================
